---- MODULE Spec2Model ----
(***************************************************************************)
(* Task state machine of the DSPy scheduling service: the tasks table,     *)
(* the TaskRepository / TaskService lifecycle operations, the chat         *)
(* dispatcher that reaches the same repository, and database sessions      *)
(* that interleave at their reads and commits; the reconciler's tick under *)
(* its interval timer; the model calls with their retries and audit rows;  *)
(* the chat turn; and the singleton tables global_context and settings.    *)
(*                                                                         *)
(* Time is counted in whole hours since midnight of day 0; the service is  *)
(* up from hour 1 on, so that hour 0 lies in the past.                     *)
(***************************************************************************)
EXTENDS Integers, Sequences, FiniteSets, TLC

VARIABLES
    tasks,      \* the tasks table: id -> row
    next_id,    \* the autoincrement counter of tasks.id
    now,        \* the wall clock, datetime.now()
    last,       \* what the last finished request returned
    sess,       \* the requests served in parallel, one session each
    base,       \* each id's lifecycle state before the parallel requests began
    tick,       \* the reconciler's position in check_and_update_schedule
    calls,      \* the model calls of the operation in progress or last finished
    settings,   \* config.settings: the fallback slot policy
    store,      \* the other tables: dspy_executions, chat_messages, the singletons
    llm         \* the model call in progress: its retries and its audit write

vars == <<tasks, next_id, now, last, sess, base, tick, calls, settings, store, llm>>

(***************************************************************************)
(* Bounds of the model.                                                    *)
(***************************************************************************)
MaxId == 2
MaxTime == 2
NumSessions == 2
MaxTickTasks == 1
MaxHour == 47
MaxDuration == 2
MaxExecutions == 5
MaxMessages == 2
MaxChatTasks == 1
MaxRetentionDays == 1

\* The titles requests are made with: the form's, and the assistant's (empty:
\* the chat dispatcher substitutes "Untitled Task").
Titles == {"A"}
ChatTitles == {""}

(***************************************************************************)
(* Program constants.                                                      *)
(***************************************************************************)
NULL == -1
fallback_start_hour == 9
fallback_duration_hours == 1
HoursPerDay == 24
stop_after_attempt == 3
store_stop_after_attempt == 3

Ids == 1..MaxId
Sessions == 1..NumSessions

\* config.Settings with its defaults.
DefaultSettings == [fallback_start_hour     |-> fallback_start_hour,
                    fallback_duration_hours |-> fallback_duration_hours]

\* No model call was made.
NoCalls == <<>>

\* The tables besides tasks, as models.Base.metadata.create_all leaves them:
\* dspy_executions and chat_messages hold their rows in insertion order,
\* global_context and settings hold the number of their rows.
EmptyStore == [dspy_executions |-> <<>>,
               chat_messages   |-> <<>>,
               global_context  |-> 0,
               settings        |-> 0]

\* No model call is in progress.
LLMIdle == [call |-> "none", callee |-> "none", pc |-> "idle", attempts |-> 0,
            invoked |-> 0, stores |-> 0, result |-> "none", rows_before |-> 0]

(***************************************************************************)
(* models.Task: one row of the tasks table (column defaults included).     *)
(***************************************************************************)
Task(title, sched_start, sched_end, needs) ==
    [title                |-> title,
     scheduled_start_time |-> sched_start,
     scheduled_end_time   |-> sched_end,
     actual_start_time    |-> NULL,
     actual_end_time      |-> NULL,
     priority             |-> 0,
     completed            |-> FALSE,
     needs_scheduling     |-> needs]

EmptyDb == [i \in {} |-> Task("A", NULL, NULL, FALSE)]

\* INSERT of a row under a fresh autoincrement id.
Insert(db, id, row) ==
    [i \in DOMAIN db \cup {id} |-> IF i \in DOMAIN db THEN db[i] ELSE row]

Remove(db, id) == [i \in DOMAIN db \ {id} |-> db[i]]

(***************************************************************************)
(* TaskRepository queries.                                                 *)
(***************************************************************************)
IsActive(row) == row.actual_start_time # NULL /\ ~row.completed
IsPending(row) == row.actual_start_time = NULL /\ ~row.completed

\* get_active is .first() over an unordered filter: any matching row.
ActiveIds(db) == {i \in DOMAIN db : IsActive(db[i])}

get_by_id(db, id) == id \in DOMAIN db

(***************************************************************************)
(* One database session running one repository operation.  pc is the      *)
(* position in the method, dirty the attribute assignments not yet         *)
(* flushed, result/names what the caller finally sees.                     *)
(***************************************************************************)
NoDirty == [a \in {} |-> NULL]

Idle == [pc |-> "idle", op |-> "none", id |-> 0, dirty |-> NoDirty,
         result |-> "none", names |-> ""]

Done(se, result, names) ==
    [se EXCEPT !.pc = "done", !.dirty = NoDirty, !.result = result, !.names = names]

Out(db, se) == [db |-> db, se |-> se]

\* TaskService.<op>: task = get_by_id(task_id); None is returned for no row.
Lookup(db, op, id) ==
    LET se == [Idle EXCEPT !.op = op, !.id = id]
    IN  IF ~get_by_id(db, id) THEN Done(se, "not_found", "")
        ELSE [se EXCEPT !.pc = IF op = "delete" THEN "commit" ELSE "refresh"]

StartRefreshNoGone(db, se) ==
    IF se.id \notin DOMAIN db THEN {Out(db, [se EXCEPT !.pc = "get_active"])}
    ELSE IF db[se.id].completed THEN {Out(db, Done(se, "already_completed", db[se.id].title))}
    ELSE IF db[se.id].actual_start_time # NULL THEN {Out(db, Done(se, "ok", ""))}
    ELSE {Out(db, [se EXCEPT !.pc = "get_active"])}

\* A start_task without the test of line 71: a started task is checked and
\* stamped again.
StartRefreshAlwaysStamps(db, se) ==
    IF se.id \notin DOMAIN db THEN {Out(db, Done(se, "gone", ""))}
    ELSE IF db[se.id].completed THEN {Out(db, Done(se, "already_completed", db[se.id].title))}
    ELSE {Out(db, [se EXCEPT !.pc = "get_active"])}

\* start_task lines 62-71: refresh, then the state validation.
StartRefresh(db, se) ==
    IF se.id \notin DOMAIN db THEN {Out(db, Done(se, "gone", ""))}
    ELSE IF db[se.id].completed THEN {Out(db, Done(se, "already_completed", db[se.id].title))}
    ELSE IF db[se.id].actual_start_time # NULL THEN {Out(db, Done(se, "ok", ""))}
    ELSE {Out(db, [se EXCEPT !.pc = "get_active"])}

StartCheckActiveNoGuard(db, se, t) ==
    {Out(db, [se EXCEPT !.pc = "commit", !.dirty = ("actual_start_time" :> t)])}

StartCheckActiveNamesSelf(db, se, t) ==
    LET others == ActiveIds(db) \ {se.id}
    IN  IF ActiveIds(db) = {}
        THEN {Out(db, [se EXCEPT !.pc = "commit", !.dirty = ("actual_start_time" :> t)])}
        ELSE {Out(db, Done(se, "conflict", db[se.id].title)) : a \in others}
             \cup {Out(db, [se EXCEPT !.pc = "commit", !.dirty = ("actual_start_time" :> t)])
                     : a \in ActiveIds(db) \cap {se.id}}

\* start_task lines 72-77: the check for another active task, then the assignment.
StartCheckActive(db, se, t) ==
    LET others == ActiveIds(db) \ {se.id}
    IN  IF ActiveIds(db) = {}
        THEN {Out(db, [se EXCEPT !.pc = "commit", !.dirty = ("actual_start_time" :> t)])}
        ELSE {Out(db, Done(se, "conflict", db[a].title)) : a \in others}
             \cup {Out(db, [se EXCEPT !.pc = "commit", !.dirty = ("actual_start_time" :> t)])
                     : a \in ActiveIds(db) \cap {se.id}}

StopRefreshNoCompletedCheck(db, se) ==
    IF se.id \notin DOMAIN db THEN {Out(db, Done(se, "gone", ""))}
    ELSE IF db[se.id].actual_start_time = NULL THEN {Out(db, Done(se, "not_started", db[se.id].title))}
    ELSE {Out(db, [se EXCEPT !.pc = "commit", !.dirty = ("actual_start_time" :> NULL)])}

StopRefreshNoStartedCheck(db, se) ==
    IF se.id \notin DOMAIN db THEN {Out(db, Done(se, "gone", ""))}
    ELSE IF db[se.id].completed THEN {Out(db, Done(se, "already_completed", db[se.id].title))}
    ELSE {Out(db, [se EXCEPT !.pc = "commit", !.dirty = ("actual_start_time" :> NULL)])}

\* stop_task lines 94-106.
StopRefresh(db, se) ==
    IF se.id \notin DOMAIN db THEN {Out(db, Done(se, "gone", ""))}
    ELSE IF db[se.id].completed THEN {Out(db, Done(se, "already_completed", db[se.id].title))}
    ELSE IF db[se.id].actual_start_time = NULL THEN {Out(db, Done(se, "not_started", db[se.id].title))}
    ELSE {Out(db, [se EXCEPT !.pc = "commit", !.dirty = ("actual_start_time" :> NULL)])}

CompleteRefreshNoStartedCheck(db, se, t) ==
    IF se.id \notin DOMAIN db THEN {Out(db, Done(se, "gone", ""))}
    ELSE {Out(db, [se EXCEPT !.pc = "commit",
                             !.dirty = ("completed" :> TRUE) @@ ("actual_end_time" :> t)])}

\* complete_task lines 113-123.  The assignment completed = True on a row that
\* already holds True is no net change and is not flushed.
CompleteRefresh(db, se, t) ==
    IF se.id \notin DOMAIN db THEN {Out(db, Done(se, "gone", ""))}
    ELSE IF db[se.id].actual_start_time = NULL THEN {Out(db, Done(se, "not_started", db[se.id].title))}
    ELSE {Out(db, [se EXCEPT !.pc = "commit",
                             !.dirty = ("completed" :> TRUE) @@ ("actual_end_time" :> t)])}

\* Session.commit of an UPDATE: only the assigned columns are written, WHERE id;
\* no row matched is a StaleDataError and the transaction is rolled back.
\* The tasks table has no constraint an UPDATE of these columns can violate.
CommitUpdate(db, se) ==
    IF se.id \notin DOMAIN db THEN {Out(db, Done(se, "stale", ""))}
    ELSE {Out([db EXCEPT ![se.id] = [f \in DOMAIN @ |->
                                        IF f \in DOMAIN se.dirty THEN se.dirty[f] ELSE @[f]]],
              Done(se, "ok", ""))}

CommitDeleteNoCommit(db, se) ==
    {Out(db, Done(se, "ok", ""))}

\* TaskRepository.delete: DELETE WHERE id, commit; a row already gone only warns.
CommitDelete(db, se) ==
    {Out(IF se.id \in DOMAIN db THEN Remove(db, se.id) ELSE db, Done(se, "ok", ""))}

\* The next database interaction of a session.
Step(db, se, t) ==
    CASE se.pc = "refresh" /\ se.op = "start"    -> StartRefresh(db, se)
      [] se.pc = "refresh" /\ se.op = "stop"     -> StopRefresh(db, se)
      [] se.pc = "refresh" /\ se.op = "complete" -> CompleteRefresh(db, se, t)
      [] se.pc = "get_active"                    -> StartCheckActive(db, se, t)
      [] se.pc = "commit" /\ se.op = "delete"    -> CommitDelete(db, se)
      [] se.pc = "commit" /\ se.op # "delete"    -> CommitUpdate(db, se)
      [] OTHER                                   -> {Out(db, se)}

\* A whole operation run without interleaving: every outcome it can end in.
RECURSIVE Run(_, _, _)
Run(db, se, t) ==
    IF se.pc = "done" THEN {Out(db, se)}
    ELSE UNION {Run(o.db, o.se, t) : o \in Step(db, se, t)}

Ops == {"start", "stop", "complete", "delete"}

\* The lifecycle state the fields of a row stand for.
Status(row) ==
    IF row.completed THEN "COMPLETED"
    ELSE IF row.actual_start_time # NULL THEN "ACTIVE" ELSE "PENDING"

StatusOf(db) == [i \in Ids |-> IF i \in DOMAIN db THEN Status(db[i]) ELSE "absent"]

\* The request log: the operation, its target and the target's state when the
\* request arrived, and what the caller got back.
Last(op, id, result, names) ==
    [op |-> op, id |-> id, result |-> result, names |-> names,
     was |-> IF id \in DOMAIN tasks THEN Status(tasks[id]) ELSE "absent"]

(***************************************************************************)
(* TaskService.create_task: the fallback slot, then TaskRepository.create. *)
(***************************************************************************)
FallbackStartNoRollover(t) ==
    (t \div HoursPerDay) * HoursPerDay + settings.fallback_start_hour

\* Lines 73-80: midnight of today plus the configured hour, a day later if
\* that instant lies before now.
FallbackStart(t) ==
    LET today == (t \div HoursPerDay) * HoursPerDay + settings.fallback_start_hour
    IN  IF today < t THEN today + HoursPerDay ELSE today

CreateTaskWithDspy(title) ==
    /\ next_id <= MaxId
    /\ tasks' = Insert(tasks, next_id, Task(title, FallbackStart(now),
                                            FallbackStart(now) + settings.fallback_duration_hours,
                                            FALSE))
    /\ next_id' = next_id + 1
    /\ last' = Last("create", next_id, "ok", "")
    /\ calls' = <<[module |-> "TimeSlotScheduler", phase |-> "create", id |-> next_id,
                   failed |-> TRUE, start_parsed |-> FALSE, end_parsed |-> FALSE,
                   input |-> {}, result |-> <<>>]>>
    /\ UNCHANGED <<now, sess, base, tick, settings, store, llm>>

CreateTask(title) ==
    /\ next_id <= MaxId
    /\ tasks' = Insert(tasks, next_id, Task(title, FallbackStart(now),
                                            FallbackStart(now) + settings.fallback_duration_hours,
                                            TRUE))
    /\ next_id' = next_id + 1
    /\ last' = Last("create", next_id, "ok", "")
    /\ calls' = NoCalls
    /\ UNCHANGED <<now, sess, base, tick, settings, store, llm>>

\* TaskService.start_task / stop_task / complete_task / delete_task in one request.
ServiceOp(op, id) ==
    /\ \E o \in Run(tasks, Lookup(tasks, op, id), now) :
         /\ tasks' = o.db
         /\ last' = Last(op, id, o.se.result, o.se.names)
    /\ calls' = NoCalls
    /\ UNCHANGED <<next_id, now, sess, base, tick, settings, store, llm>>

StartTask(id) == ServiceOp("start", id)
StopTask(id) == ServiceOp("stop", id)
CompleteTask(id) == ServiceOp("complete", id)
DeleteTask(id) == ServiceOp("delete", id)

(***************************************************************************)
(* ChatService._execute_action, reached from process_message with the      *)
(* assistant's action, task_id and title.  An exception of the repository  *)
(* is caught by process_message and becomes a failed action result.        *)
(***************************************************************************)
ChatActions == {"create_task", "start_task", "complete_task", "stop_task",
                "delete_task", "update_task"}

RepoOp(action) ==
    CASE action = "start_task"    -> "start"
      [] action = "complete_task" -> "complete"
      [] action = "stop_task"     -> "stop"
      [] action = "delete_task"   -> "delete"
      [] OTHER                    -> "none"

\* A dispatcher whose fall-through reports the action as not executed.
ExecuteActionUnknownFails(action, task_id, title) ==
    /\ IF action = "create_task"
       THEN /\ next_id <= MaxId
            /\ tasks' = Insert(tasks, next_id,
                               Task(IF title = "" THEN "Untitled Task" ELSE title,
                                    NULL, NULL, TRUE))
            /\ next_id' = next_id + 1
            /\ last' = Last(action, next_id, "ok", "")
       ELSE IF RepoOp(action) # "none" /\ task_id # 0
       THEN /\ \E o \in Run(tasks, Lookup(tasks, RepoOp(action), task_id), now) :
                 /\ tasks' = o.db
                 /\ last' = Last(action, task_id, o.se.result, o.se.names)
            /\ UNCHANGED next_id
       ELSE /\ last' = Last(action, task_id, "unknown_action", "")
            /\ UNCHANGED <<tasks, next_id>>
    /\ calls' = NoCalls
    /\ UNCHANGED <<now, sess, base, tick, settings, llm>>

\* ChatService._execute_action on the tasks table.
ExecuteAction(action, task_id, title) ==
    /\ IF action = "create_task"
       THEN /\ next_id <= MaxId
            /\ tasks' = Insert(tasks, next_id,
                               Task(IF title = "" THEN "Untitled Task" ELSE title,
                                    NULL, NULL, TRUE))
            /\ next_id' = next_id + 1
            /\ last' = Last(action, next_id, "ok", "")
       ELSE IF RepoOp(action) # "none" /\ task_id # 0
       THEN /\ \E o \in Run(tasks, Lookup(tasks, RepoOp(action), task_id), now) :
                 /\ tasks' = o.db
                 /\ last' = Last(action, task_id, o.se.result, o.se.names)
            /\ UNCHANGED next_id
       ELSE /\ last' = Last(action, task_id, "executed", "")
            /\ UNCHANGED <<tasks, next_id>>
    /\ calls' = NoCalls
    /\ UNCHANGED <<now, sess, base, tick, settings, llm>>

\* What the assistant answers in one chat turn: an action, a task id (0 for
\* none), a title; or its call raises.
AssistantActions == ChatActions \cup {"list_tasks", "chat"}
AssistantRaised == [action |-> "raised", task_id |-> 0, title |-> ""]
Answers ==
    [action : AssistantActions, task_id : 0..MaxId, title : ChatTitles] \cup {AssistantRaised}

\* result.response, and final_response of process_message lines 129-131: the
\* note with the action's message follows the response when the action failed.
Response == <<"response">>
FinalResponse(l) ==
    IF l.result \in {"ok", "executed", "none"} THEN Response
    ELSE Response \o <<"Note", l.result>>

\* models.ChatMessage and models.DSPyExecution: created_at defaults to
\* datetime.now at the insert.
ChatMessage(assistant_response) ==
    [assistant_response |-> assistant_response, created_at |-> now]

DSPyExecution(module_name) == [module_name |-> module_name, created_at |-> now]

\* context_repo.get_or_create() of process_message line 104, served alone.
WithContextRow(st) == [st EXCEPT !.global_context = IF @ = 0 THEN 1 ELSE @]

\* A turn that stores the assistant's response whatever the action returned.
ProcessMessageNoNote(answer, stored) ==
    /\ Len(store.chat_messages) < MaxMessages
    /\ Len(store.dspy_executions) < MaxExecutions
    /\ IF answer = AssistantRaised
       THEN /\ ~stored
            /\ store' = WithContextRow(store)
            /\ last' = Last("process_message", 0, "raised", "")
            /\ calls' = NoCalls
            /\ UNCHANGED <<tasks, next_id, now, sess, base, tick, settings, llm>>
       ELSE /\ IF answer.action \in {"chat", "list_tasks"}
               THEN /\ last' = Last(answer.action, answer.task_id, "none", "")
                    /\ calls' = NoCalls
                    /\ UNCHANGED <<tasks, next_id, now, sess, base, tick, settings, llm>>
               ELSE ExecuteAction(answer.action, answer.task_id, answer.title)
            /\ store' = [WithContextRow(store) EXCEPT
                            !.chat_messages = Append(@, ChatMessage(Response)),
                            !.dspy_executions = IF stored THEN Append(@, DSPyExecution("ChatAssistantModule"))
                                                ELSE @]

\* POST /chat/send: ChatService.process_message under its tracker.  The
\* assistant's exception leaves the handler before anything is stored; else
\* the action, if it is one, is dispatched, the final response is stored as
\* one chat_messages row, and the tracker writes its dspy_executions row
\* unless that write fails.
ProcessMessage(answer, stored) ==
    /\ Len(store.chat_messages) < MaxMessages
    /\ Len(store.dspy_executions) < MaxExecutions
    /\ IF answer = AssistantRaised
       THEN /\ ~stored
            /\ store' = WithContextRow(store)
            /\ last' = Last("process_message", 0, "raised", "")
            /\ calls' = NoCalls
            /\ UNCHANGED <<tasks, next_id, now, sess, base, tick, settings, llm>>
       ELSE /\ IF answer.action \in {"chat", "list_tasks"}
               THEN /\ last' = Last(answer.action, answer.task_id, "none", "")
                    /\ calls' = NoCalls
                    /\ UNCHANGED <<tasks, next_id, now, sess, base, tick, settings, llm>>
               ELSE ExecuteAction(answer.action, answer.task_id, answer.title)
            /\ store' = [WithContextRow(store) EXCEPT
                            !.chat_messages = Append(@, ChatMessage(FinalResponse(last'))),
                            !.dspy_executions = IF stored THEN Append(@, DSPyExecution("ChatAssistantModule"))
                                                ELSE @]

\* POST /chat/clear: ChatRepository.delete_all.
ClearChat ==
    /\ store.chat_messages # <<>>
    /\ store' = [store EXCEPT !.chat_messages = <<>>]
    /\ last' = Last("clear_chat", 0, "ok", "")
    /\ calls' = NoCalls
    /\ UNCHANGED <<tasks, next_id, now, sess, base, tick, settings, llm>>

\* A day passes.
AdvanceDay ==
    /\ now + HoursPerDay <= MaxHour
    /\ now' = now + HoursPerDay
    /\ last' = Last("clock", 0, "ok", "")
    /\ calls' = NoCalls
    /\ UNCHANGED <<tasks, next_id, sess, base, tick, settings, store, llm>>

\* The rows a DELETE ... WHERE created_at < cutoff_date leaves, with
\* cutoff_date = datetime.now() - timedelta(days=retention_days).
KeptRows(rows, retention_days, t) ==
    SelectSeq(rows, LAMBDA r : ~(r.created_at < t - retention_days * HoursPerDay))

\* What a retention call returned: the table, the outcome, the count.
Trimmed(table, retention_days, result, deleted) ==
    [op |-> "delete_old_records", id |-> 0, result |-> result, names |-> table,
     was |-> "absent", retention_days |-> retention_days, deleted |-> deleted]

\* ChatRepository.delete_old_records.
ChatRetention(retention_days) ==
    /\ store' = [store EXCEPT !.chat_messages = KeptRows(@, retention_days, now)]
    /\ last' = Trimmed("chat_messages", retention_days, "ok",
                       Len(store.chat_messages)
                         - Len(KeptRows(store.chat_messages, retention_days, now)))
    /\ calls' = NoCalls
    /\ UNCHANGED <<tasks, next_id, now, sess, base, tick, settings, llm>>

\* DSPyExecutionRepository has get_latest and create only: a call of
\* delete_old_records on it raises AttributeError and deletes nothing.
ExecutionRetention(retention_days) ==
    /\ last' = Trimmed("dspy_executions", retention_days, "AttributeError", 0)
    /\ calls' = NoCalls
    /\ UNCHANGED <<tasks, next_id, now, sess, base, tick, settings, store, llm>>

\* datetime.now() moves on between requests.
AdvanceClock ==
    /\ now < MaxTime
    /\ now' = now + 1
    /\ last' = Last("clock", 0, "ok", "")
    /\ calls' = NoCalls
    /\ UNCHANGED <<tasks, next_id, sess, base, tick, settings, store, llm>>

(***************************************************************************)
(* Requests served in parallel, each in its own session (models.get_db):   *)
(* they interleave at every read and every commit.                         *)
(***************************************************************************)
\* A request arrives: get_db opens its session and the service looks the task up.
Begin(s, op, id) ==
    /\ sess[s].pc = "idle"
    /\ sess' = [sess EXCEPT ![s] = Lookup(tasks, op, id)]
    /\ UNCHANGED <<tasks, next_id, now, last, base, tick, calls, settings, store, llm>>

\* The request's next read or commit.
SessionStep(s) ==
    /\ sess[s].pc \notin {"idle", "done"}
    /\ \E o \in Step(tasks, sess[s], now) :
         /\ tasks' = o.db
         /\ sess' = [sess EXCEPT ![s] = o.se]
    /\ UNCHANGED <<next_id, now, last, base, tick, calls, settings, store, llm>>

(***************************************************************************)
(* ScheduleChecker.check_and_update_schedule: one reconciler tick in its   *)
(* own session.  Phase A schedules the tasks flagged needs_scheduling,      *)
(* Phase B reschedules slipped tasks, Phase C reprioritizes.                *)
(***************************************************************************)
\* What the time-slot model may answer: the call fails after its retries, or
\* it returns two strings, each an ISO timestamp, empty, or not a date.
LLMTimes == {0, MaxTime + 1}

LLMStrings ==
    [kind : {"iso"}, t : LLMTimes] \cup {[kind |-> "empty", t |-> 0], [kind |-> "garbage", t |-> 0]}

LLMFailed == [failed |-> TRUE, start_time |-> [kind |-> "empty", t |-> 0],
              end_time |-> [kind |-> "empty", t |-> 0]]

LLMSlots ==
    {LLMFailed} \cup [failed : {FALSE}, start_time : LLMStrings, end_time : LLMStrings]

\* datetime.fromisoformat(s) if s else None, ValueError caught as None.
ParseIso(str) == IF str.kind = "iso" THEN str.t ELSE NULL

PriorityValues == {0, 10}

\* What the prioritizer may answer: failure after retries, or priorities in
\* [0, 10] for some ids, known to the table (at most MaxTickTasks) or not.
NoPriorities == [i \in {} |-> 0]

LLMPriorities ==
    UNION {[S -> PriorityValues] : S \in SUBSET (1..(MaxTickTasks + 1))}

RECURSIVE SortedSeq(_)
SortedSeq(S) ==
    IF S = {} THEN <<>>
    ELSE LET m == CHOOSE x \in S : \A y \in S : x <= y
         IN  <<m>> \o SortedSeq(S \ {m})

get_tasks_needing_scheduling(db) ==
    SortedSeq({i \in DOMAIN db : db[i].needs_scheduling /\ ~db[i].completed})

get_incomplete(db) == SortedSeq({i \in DOMAIN db : ~db[i].completed})

\* The locals of a tick; before is the table as the tick found it.
TickIdle == [pc |-> "idle", now |-> 0, queue |-> <<>>, scheduled |-> 0,
             rescheduled |-> 0, failed |-> FALSE, before |-> EmptyDb, running |-> 0]

\* The existing_schedule reschedule_task builds (lines 47-51): the rows
\* get_scheduled returns, those with a scheduled start, without the task itself
\* and without the completed ones.
ExistingSchedule(db, id) ==
    {i \in DOMAIN db : /\ db[i].scheduled_start_time # NULL
                       /\ i # id
                       /\ ~db[i].completed}

\* One logical call of _call_dspy_reschedule for task id, as reschedule_task
\* logs it: the existing_schedule it passes, the failure after the retries
\* (line 66), or which of the two answered strings gave a datetime (lines 74-83).
TimeSlotCall(phase, id, slot) ==
    [module |-> "TimeSlotScheduler", phase |-> phase, id |-> id, failed |-> slot.failed,
     start_parsed |-> ~slot.failed /\ ParseIso(slot.start_time) # NULL,
     end_parsed |-> ~slot.failed /\ ParseIso(slot.end_time) # NULL,
     input |-> ExistingSchedule(tasks, id), result |-> NoPriorities]

\* One logical call of _call_dspy_prioritizer with the tasks whose ids are input,
\* and the priorities it answered.
PrioritizerCall(input, failed, prio) ==
    [module |-> "TaskPrioritizer", phase |-> "C", id |-> 0, failed |-> failed,
     start_parsed |-> FALSE, end_parsed |-> FALSE,
     input |-> input, result |-> prio]

TickMark == [op |-> "tick", id |-> 0, result |-> "ok", names |-> "", was |-> "absent"]

RescheduleWriteKeepUnparsed(db, id, slot) ==
    IF slot.failed THEN db
    ELSE [db EXCEPT ![id].scheduled_start_time =
                        IF ParseIso(slot.start_time) = NULL THEN @ ELSE ParseIso(slot.start_time),
                    ![id].scheduled_end_time =
                        IF ParseIso(slot.end_time) = NULL THEN @ ELSE ParseIso(slot.end_time)]

\* reschedule_task lines 69-85 once the model has answered: refresh, parse,
\* assign both times, commit.  A failed call returns before touching the row.
RescheduleWrite(db, id, slot) ==
    IF slot.failed THEN db
    ELSE [db EXCEPT ![id].scheduled_start_time = ParseIso(slot.start_time),
                    ![id].scheduled_end_time = ParseIso(slot.end_time)]

\* A firing of the interval timer that starts the job although an instance of
\* it is still running.
TickBeginReentrant ==
    /\ tick' = [TickIdle EXCEPT !.pc = "A", !.now = now,
                                !.queue = get_tasks_needing_scheduling(tasks),
                                !.before = tasks, !.running = tick.running + 1]
    /\ last' = TickMark
    /\ calls' = NoCalls
    /\ UNCHANGED <<tasks, next_id, now, sess, base, settings, store, llm>>

\* A firing of the interval timer of app.lifespan (add_job without
\* max_instances: one running instance at most) that finds no instance
\* running, and check_and_update_schedule lines 154-165.
TickBegin ==
    /\ tick.pc = "idle"
    /\ tick' = [TickIdle EXCEPT !.pc = "A", !.now = now,
                                !.queue = get_tasks_needing_scheduling(tasks),
                                !.before = tasks, !.running = tick.running + 1]
    /\ last' = TickMark
    /\ calls' = NoCalls
    /\ UNCHANGED <<tasks, next_id, now, sess, base, settings, store, llm>>

\* Phase A, line 168: reschedule_task for the next flagged task.
\* A Phase A that treats the new slot as a fresh start and clears the task's
\* actual start.
TickScheduleResetsStart(slot) ==
    /\ tick.pc = "A" /\ tick.queue # <<>>
    /\ tasks' = [RescheduleWrite(tasks, Head(tick.queue), slot)
                   EXCEPT ![Head(tick.queue)].actual_start_time = NULL]
    /\ tick' = [tick EXCEPT !.pc = "A_flag", !.failed = slot.failed]
    /\ last' = TickMark
    /\ calls' = Append(calls, TimeSlotCall("A", Head(tick.queue), slot))
    /\ UNCHANGED <<next_id, now, sess, base, settings, store, llm>>

\* Phase A, lines 165-168: reschedule_task for the next flagged task, with its
\* commit of the new times (line 85).
TickSchedule(slot) ==
    /\ tick.pc = "A" /\ tick.queue # <<>>
    /\ tasks' = RescheduleWrite(tasks, Head(tick.queue), slot)
    /\ tick' = [tick EXCEPT !.pc = "A_flag", !.failed = slot.failed]
    /\ last' = TickMark
    /\ calls' = Append(calls, TimeSlotCall("A", Head(tick.queue), slot))
    /\ UNCHANGED <<next_id, now, sess, base, settings, store, llm>>

TickClearFlagUnlessFailed ==
    /\ tick.pc = "A_flag"
    /\ tasks' = [tasks EXCEPT ![Head(tick.queue)].needs_scheduling = tick.failed]
    /\ tick' = [tick EXCEPT !.pc = "A", !.queue = Tail(@), !.scheduled = @ + 1,
                            !.failed = FALSE]
    /\ last' = TickMark
    /\ UNCHANGED <<next_id, now, sess, base, calls, settings, store, llm>>

\* Phase A, lines 169-171: the flag is cleared in a commit of its own.
TickClearFlag ==
    /\ tick.pc = "A_flag"
    /\ tasks' = [tasks EXCEPT ![Head(tick.queue)].needs_scheduling = FALSE]
    /\ tick' = [tick EXCEPT !.pc = "A", !.queue = Tail(@), !.scheduled = @ + 1,
                            !.failed = FALSE]
    /\ last' = TickMark
    /\ UNCHANGED <<next_id, now, sess, base, calls, settings, store, llm>>

TickPhaseBAfterPrioritize ==
    /\ tick.pc = "A" /\ tick.queue = <<>>
    /\ tick' = [tick EXCEPT !.pc = "B", !.queue = get_incomplete(tasks)]
    /\ last' = TickMark
    /\ calls' = Append(calls, [module |-> "TaskPrioritizer", phase |-> "C", id |-> 0,
                               failed |-> TRUE, start_parsed |-> FALSE, end_parsed |-> FALSE,
                               input |-> {i \in DOMAIN tasks : ~tasks[i].completed},
                               result |-> <<>>])
    /\ UNCHANGED <<tasks, next_id, now, sess, base, settings, store, llm>>

\* Line 174: Phase B reads the incomplete tasks.
TickPhaseB ==
    /\ tick.pc = "A" /\ tick.queue = <<>>
    /\ tick' = [tick EXCEPT !.pc = "B", !.queue = get_incomplete(tasks)]
    /\ last' = TickMark
    /\ UNCHANGED <<tasks, next_id, now, sess, base, calls, settings, store, llm>>

\* A check that looks at the scheduled end only.
NeedsRescheduleEndOnly(row, t) ==
    row.scheduled_end_time # NULL /\ row.scheduled_end_time < t /\ ~row.completed

\* Lines 177-184: has the task slipped?
NeedsReschedule(row, t) ==
    \/ row.scheduled_end_time # NULL /\ row.scheduled_end_time < t /\ ~row.completed
    \/ /\ row.scheduled_start_time # NULL /\ row.scheduled_start_time < t
       /\ row.actual_start_time = NULL

\* A Phase B in which the failure of the time-slot call ends the tick.
TickCheckFailureEndsTick(slot) ==
    /\ tick.pc = "B" /\ tick.queue # <<>>
    /\ LET id == Head(tick.queue)
       IN  IF NeedsReschedule(tasks[id], tick.now)
           THEN /\ tasks' = RescheduleWrite(tasks, id, slot)
                /\ tick' = IF slot.failed THEN [TickIdle EXCEPT !.running = tick.running - 1]
                           ELSE [tick EXCEPT !.queue = Tail(@), !.rescheduled = @ + 1]
                /\ calls' = Append(calls, TimeSlotCall("B", id, slot))
           ELSE /\ slot = LLMFailed
                /\ tasks' = tasks
                /\ tick' = [tick EXCEPT !.queue = Tail(@)]
                /\ calls' = calls
    /\ last' = TickMark
    /\ UNCHANGED <<next_id, now, sess, base, settings, store, llm>>

\* Phase B, lines 176-188: one task of the loop.
TickCheck(slot) ==
    /\ tick.pc = "B" /\ tick.queue # <<>>
    /\ LET id == Head(tick.queue)
       IN  IF NeedsReschedule(tasks[id], tick.now)
           THEN /\ tasks' = RescheduleWrite(tasks, id, slot)
                /\ tick' = [tick EXCEPT !.queue = Tail(@), !.rescheduled = @ + 1]
                /\ calls' = Append(calls, TimeSlotCall("B", id, slot))
           ELSE /\ slot = LLMFailed
                /\ tasks' = tasks
                /\ tick' = [tick EXCEPT !.queue = Tail(@)]
                /\ calls' = calls
    /\ last' = TickMark
    /\ UNCHANGED <<next_id, now, sess, base, settings, store, llm>>

ApplyPrioritiesResetAbsent(db, prio) ==
    [i \in DOMAIN db |-> [db[i] EXCEPT !.priority = IF i \in DOMAIN prio THEN prio[i] ELSE 0]]

\* reprioritize_tasks lines 137-148: each result row whose id is in the table
\* gets its priority, one commit per row.
ApplyPriorities(db, prio) ==
    [i \in DOMAIN db |-> IF i \in DOMAIN prio THEN [db[i] EXCEPT !.priority = prio[i]]
                         ELSE db[i]]

\* Phase C, lines 196-207, and the end of the tick.
TickPrioritize(failed, prio) ==
    /\ tick.pc = "B" /\ tick.queue = <<>>
    /\ IF (tick.scheduled > 0 \/ tick.rescheduled > 0) /\ get_incomplete(tasks) # <<>> /\ ~failed
       THEN tasks' = ApplyPriorities(tasks, prio)
       ELSE /\ failed /\ prio = NoPriorities
            /\ tasks' = tasks
    /\ calls' = IF (tick.scheduled > 0 \/ tick.rescheduled > 0) /\ get_incomplete(tasks) # <<>>
                THEN Append(calls, PrioritizerCall({i \in DOMAIN tasks : ~tasks[i].completed},
                                                   failed, prio))
                ELSE calls
    /\ tick' = [TickIdle EXCEPT !.running = tick.running - 1]
    /\ last' = TickMark
    /\ UNCHANGED <<next_id, now, sess, base, settings, store, llm>>

\* A firing of the interval timer while the job's one instance is running: the
\* run is skipped and not queued.
TimerSkip ==
    /\ tick.pc # "idle"
    /\ last' = [TickMark EXCEPT !.result = "skipped"]
    /\ UNCHANGED <<tasks, next_id, now, sess, base, tick, calls, settings, store, llm>>

(***************************************************************************)
(* The model calls: the retry wrappers of ScheduleChecker, the modules of   *)
(* scheduler.py and chat_assistant.py, and the tracker of dspy_tracker.py.  *)
(***************************************************************************)
\* The logical calls and what each one calls: ScheduleChecker.time_scheduler is
\* the constructor's argument (app.py passes TimeSlotModule(); any callable
\* that invokes the model itself and raises or returns a prediction may be
\* passed), ScheduleChecker.prioritizer is always a PrioritizerModule, and
\* ChatService.assistant is always a ChatAssistantModule.
Wirings == {<<"scheduleTimeslot", "TimeSlotModule">>,
            <<"scheduleTimeslot", "callable">>,
            <<"prioritize", "PrioritizerModule">>,
            <<"assistantAct", "ChatAssistantModule">>}

\* What one attempt of a call does.
AttemptOutcomes == {"return", "raise"}

\* What one attempt to write the dspy_executions row does: it commits, it
\* raises OperationalError or DBAPIError, or it raises something else.
StoreOutcomes == {"ok", "transient", "other"}

\* _call_dspy_reschedule, _call_dspy_prioritizer, or process_message under
\* its tracker, is entered.
LLMBegin(call, callee) ==
    /\ llm.pc \in {"idle", "done"}
    /\ Len(store.dspy_executions) < MaxExecutions
    /\ llm' = [LLMIdle EXCEPT !.call = call, !.callee = callee, !.pc = "attempt",
                              !.rows_before = Len(store.dspy_executions)]
    /\ UNCHANGED <<tasks, next_id, now, last, sess, base, tick, calls, settings, store>>

\* TimeSlotModule.forward and PrioritizerModule.forward: the tracker's wrapper
\* around the call of the model is built and returned, not called.
Forward(l) ==
    [l EXCEPT !.attempts = @ + 1, !.result = "wrapper", !.pc = "done"]

\* tenacity.retry of _call_dspy_reschedule and _call_dspy_prioritizer around
\* a callee that invokes the model: the first return ends the call, an
\* exception is retried until the attempts are used up and then re-raised.
Retry(l, outcome) ==
    IF outcome = "return"
    THEN [l EXCEPT !.attempts = @ + 1, !.invoked = @ + 1, !.result = "prediction",
                   !.pc = "done"]
    ELSE IF l.attempts + 1 < stop_after_attempt
    THEN [l EXCEPT !.attempts = @ + 1, !.invoked = @ + 1]
    ELSE [l EXCEPT !.attempts = @ + 1, !.invoked = @ + 1, !.result = "error",
                   !.pc = "done"]

\* process_message lines 107-111 under the tracker's wrapper: the assistant is
\* called once; its exception leaves process_message and the wrapper, its
\* prediction is followed by the rest of process_message and the audit write.
AssistantCall(l, outcome) ==
    IF outcome = "return"
    THEN [l EXCEPT !.attempts = @ + 1, !.invoked = @ + 1, !.result = "prediction",
                   !.pc = "store"]
    ELSE [l EXCEPT !.attempts = @ + 1, !.invoked = @ + 1, !.result = "error",
                   !.pc = "done"]

\* One attempt of the call in progress.
LLMAttempt(outcome) ==
    /\ llm.pc = "attempt"
    /\ llm' = CASE llm.callee = "callable" -> Retry(llm, outcome)
                 [] llm.callee = "ChatAssistantModule" -> AssistantCall(llm, outcome)
                 [] OTHER -> Forward(llm)
    /\ llm.callee \in {"TimeSlotModule", "PrioritizerModule"} => outcome = "return"
    /\ UNCHANGED <<tasks, next_id, now, last, sess, base, tick, calls, settings, store>>

\* A tracker whose failed audit write reaches the caller.
StoreExecutionRaises(outcome) ==
    /\ llm.pc = "store"
    /\ IF outcome = "ok"
       THEN /\ store' = [store EXCEPT !.dspy_executions = Append(@, DSPyExecution(llm.callee))]
            /\ llm' = [llm EXCEPT !.stores = @ + 1, !.pc = "done"]
       ELSE /\ store' = store
            /\ llm' = IF outcome = "transient" /\ llm.stores + 1 < store_stop_after_attempt
                      THEN [llm EXCEPT !.stores = @ + 1]
                      ELSE [llm EXCEPT !.stores = @ + 1, !.pc = "done", !.result = "error"]
    /\ UNCHANGED <<tasks, next_id, now, last, sess, base, tick, calls, settings>>

\* wrapper lines 70-82 and _store_execution_with_retry: one attempt to insert
\* the dspy_executions row; OperationalError and DBAPIError are retried until
\* the attempts are used up, and whatever the write raises in the end is
\* logged by the wrapper, which returns the result.
StoreExecution(outcome) ==
    /\ llm.pc = "store"
    /\ IF outcome = "ok"
       THEN /\ store' = [store EXCEPT !.dspy_executions = Append(@, DSPyExecution(llm.callee))]
            /\ llm' = [llm EXCEPT !.stores = @ + 1, !.pc = "done"]
       ELSE /\ store' = store
            /\ llm' = IF outcome = "transient" /\ llm.stores + 1 < store_stop_after_attempt
                      THEN [llm EXCEPT !.stores = @ + 1]
                      ELSE [llm EXCEPT !.stores = @ + 1, !.pc = "done"]
    /\ UNCHANGED <<tasks, next_id, now, last, sess, base, tick, calls, settings>>

(***************************************************************************)
(* reprioritize_tasks attempt by attempt, with a prioritizer that invokes   *)
(* the model: the answered rows are parsed into scheduler.PrioritizedTask,  *)
(* whose priority field is bounded, inside the call that tenacity retries.  *)
(***************************************************************************)
\* The priorities the model may put into a row: below the range, its two
\* ends, above the range.
RawPriorityValues == {0 - 1, 0, 10, 11}

RawPriorities == UNION {[S -> RawPriorityValues] : S \in SUBSET (1..MaxTickTasks)}

\* PrioritizedTask.priority: float = Field(ge=0, le=10).
priority_ge == 0
priority_le == 10
PrioritizedTaskValid(priority) == priority >= priority_ge /\ priority <= priority_le

\* List[PrioritizedTask]: one invalid row fails the validation of the whole
\* result.
ResultValid(raw) == \A i \in DOMAIN raw : PrioritizedTaskValid(raw[i])

\* What one attempt returned: the answered rows and what became of them.
Attempt(raw, result) ==
    [op |-> "prioritize", id |-> 0, result |-> result, names |-> "", was |-> "absent",
     answer |-> raw]

\* reprioritize_tasks lines 106-132: the incomplete tasks are read and
\* _call_dspy_prioritizer is entered.
PrioritizeBegin ==
    /\ llm.pc \in {"idle", "done"}
    /\ get_incomplete(tasks) # <<>>
    /\ llm' = [LLMIdle EXCEPT !.call = "prioritize", !.callee = "callable", !.pc = "attempt",
                              !.rows_before = Len(store.dspy_executions)]
    /\ last' = Last("reprioritize_tasks", 0, "called", "")
    /\ calls' = NoCalls
    /\ UNCHANGED <<tasks, next_id, now, sess, base, tick, settings, store>>

\* An attempt whose rows are taken as they come.
PrioritizeAttemptUnvalidated(raised, raw) ==
    /\ llm.pc = "attempt" /\ llm.call = "prioritize"
    /\ raised => raw = NoPriorities
    /\ llm' = Retry(llm, IF raised THEN "raise" ELSE "return")
    /\ tasks' = IF raised THEN tasks ELSE ApplyPriorities(tasks, raw)
    /\ last' = Attempt(raw, IF raised THEN "raised" ELSE "accepted")
    /\ calls' = NoCalls
    /\ UNCHANGED <<next_id, now, sess, base, tick, settings, store>>

\* One attempt of _call_dspy_prioritizer and, if it returns, lines 137-148:
\* the model's call raises, or its rows fail the validation (which raises as
\* well), or the result is returned and its priorities are written.
PrioritizeAttempt(raised, raw) ==
    /\ llm.pc = "attempt" /\ llm.call = "prioritize"
    /\ raised => raw = NoPriorities
    /\ llm' = Retry(llm, IF raised \/ ~ResultValid(raw) THEN "raise" ELSE "return")
    /\ tasks' = IF raised \/ ~ResultValid(raw) THEN tasks ELSE ApplyPriorities(tasks, raw)
    /\ last' = Attempt(raw, IF raised THEN "raised"
                            ELSE IF ResultValid(raw) THEN "accepted" ELSE "ValidationError")
    /\ calls' = NoCalls
    /\ UNCHANGED <<next_id, now, sess, base, tick, settings, store>>

(***************************************************************************)
(* The singleton tables global_context and settings: each row carries       *)
(* singleton = TRUE in a UNIQUE column, and the repositories' get_or_create *)
(* and update run in sessions that interleave at each query and commit.     *)
(***************************************************************************)
SingletonOps == {"GlobalContextRepository.get_or_create",
                 "SettingsRepository.get_or_create",
                 "GlobalContextRepository.update"}

TableOf(op) == IF op = "SettingsRepository.get_or_create" THEN "settings"
               ELSE "global_context"

\* A request that reaches a singleton repository arrives.
SingletonBegin(s, op) ==
    /\ sess[s].pc \in {"idle", "done"}
    /\ sess' = [sess EXCEPT ![s] = [Idle EXCEPT !.op = op, !.pc = "query"]]
    /\ UNCHANGED <<tasks, next_id, now, last, base, tick, calls, settings, store, llm>>

\* query(...).first(): get_or_create returns the row it finds; update assigns
\* to it and commits.
SingletonQuery(s) ==
    /\ sess[s].pc = "query"
    /\ sess' = [sess EXCEPT ![s] = IF store[TableOf(sess[s].op)] > 0
                                   THEN Done(@, "found", "")
                                   ELSE [@ EXCEPT !.pc = "insert"]]
    /\ UNCHANGED <<tasks, next_id, now, last, base, tick, calls, settings, store, llm>>

\* A table without the UNIQUE constraint on singleton: every INSERT commits.
SingletonInsertNoUnique(s) ==
    /\ sess[s].pc = "insert"
    /\ store' = [store EXCEPT ![TableOf(sess[s].op)] = @ + 1]
    /\ sess' = [sess EXCEPT ![s] = Done(@, "created", "")]
    /\ UNCHANGED <<tasks, next_id, now, last, base, tick, calls, settings, llm>>

\* add and commit of the row with singleton = TRUE: the INSERT commits if the
\* table holds no such row, else it raises IntegrityError, which get_or_create
\* answers with rollback and a second query and update lets through.
SingletonInsert(s) ==
    /\ sess[s].pc = "insert"
    /\ IF store[TableOf(sess[s].op)] = 0
       THEN /\ store' = [store EXCEPT ![TableOf(sess[s].op)] = @ + 1]
            /\ sess' = [sess EXCEPT ![s] = Done(@, "created", "")]
       ELSE /\ store' = store
            /\ sess' = [sess EXCEPT ![s] =
                          IF @.op = "GlobalContextRepository.update"
                          THEN Done(@, "IntegrityError", "")
                          ELSE [@ EXCEPT !.pc = "requery"]]
    /\ UNCHANGED <<tasks, next_id, now, last, base, tick, calls, settings, llm>>

\* get_or_create after the rollback: the row another session made, or
\* RuntimeError if there is none.
SingletonRequery(s) ==
    /\ sess[s].pc = "requery"
    /\ sess' = [sess EXCEPT ![s] = IF store[TableOf(sess[s].op)] > 0
                                   THEN Done(@, "found_after_conflict", "")
                                   ELSE Done(@, "RuntimeError", "")]
    /\ UNCHANGED <<tasks, next_id, now, last, base, tick, calls, settings, store, llm>>

Init ==
    /\ settings = DefaultSettings
    /\ calls = NoCalls
    /\ tasks = EmptyDb
    /\ next_id = 1
    /\ base = StatusOf(tasks)
    /\ now = 1
    /\ last = Last("none", 0, "none", "")
    /\ sess = [s \in Sessions |-> Idle]
    /\ tick = TickIdle
    /\ store = EmptyStore
    /\ llm = LLMIdle

Next ==
    \/ \E title \in Titles : CreateTask(title)
    \/ \E id \in Ids : StartTask(id)
    \/ \E id \in Ids : StopTask(id)
    \/ \E id \in Ids : CompleteTask(id)
    \/ \E id \in Ids : DeleteTask(id)
    \/ \E title \in ChatTitles : ExecuteAction("create_task", 0, title) /\ UNCHANGED store
    \/ \E action \in ChatActions \ {"create_task"}, task_id \in {0} \cup Ids :
         ExecuteAction(action, task_id, "") /\ UNCHANGED store
    \/ AdvanceClock

Spec == Init /\ [][Next]_vars

\* Requests and reconciler ticks one after the other, all within the hour: a
\* request is served between two ticks, and at most MaxTickTasks tasks are made.
NextTick ==
    \/ /\ tick.pc = "idle"
       /\ \/ \E title \in Titles : next_id <= MaxTickTasks /\ CreateTask(title)
          \/ \E id \in Ids : StartTask(id)
          \/ \E id \in Ids : StopTask(id)
          \/ \E id \in Ids : CompleteTask(id)
          \/ \E id \in Ids : DeleteTask(id)
    \/ TickBegin
    \/ \E slot \in LLMSlots : TickSchedule(slot)
    \/ TickClearFlag
    \/ TickPhaseB
    \/ \E slot \in LLMSlots : TickCheck(slot)
    \/ \E failed \in BOOLEAN, prio \in LLMPriorities : TickPrioritize(failed, prio)

SpecTick == Init /\ [][NextTick]_vars

\* Requests and ticks under fair scheduling: the interval timer keeps firing,
\* every step of a running tick is taken in the end, and the models answer
\* (the prioritizer with priorities for no task: they do not bear on the
\* schedule).
NextTickFair ==
    \/ /\ tick.pc = "idle"
       /\ \/ \E title \in Titles : next_id <= MaxTickTasks /\ CreateTask(title)
          \/ \E id \in Ids : StartTask(id)
          \/ \E id \in Ids : StopTask(id)
          \/ \E id \in Ids : CompleteTask(id)
          \/ \E id \in Ids : DeleteTask(id)
    \/ TickBegin
    \/ \E slot \in LLMSlots : TickSchedule(slot)
    \/ TickClearFlag
    \/ TickPhaseB
    \/ \E slot \in LLMSlots : TickCheck(slot)
    \/ \E failed \in BOOLEAN : TickPrioritize(failed, NoPriorities)

TickFairness ==
    /\ WF_vars(TickBegin)
    /\ WF_vars(\E slot \in LLMSlots : TickSchedule(slot))
    /\ WF_vars(TickClearFlag)
    /\ WF_vars(TickPhaseB)
    /\ WF_vars(\E slot \in LLMSlots : TickCheck(slot))
    /\ WF_vars(\E failed \in BOOLEAN : TickPrioritize(failed, NoPriorities))

SpecTickFair == Init /\ [][NextTickFair]_vars /\ TickFairness

\* The reconciler under its interval timer, firings during a tick included.
NextTimer ==
    \/ NextTick
    \/ TimerSkip

SpecTimer == Init /\ [][NextTimer]_vars

\* Chat turns and form submissions one after the other, at most MaxChatTasks
\* tasks made.
NextChat ==
    \/ \E title \in Titles : next_id <= MaxChatTasks /\ CreateTask(title)
    \/ \E answer \in Answers, stored \in BOOLEAN :
         /\ answer.action = "create_task" => next_id <= MaxChatTasks
         /\ ProcessMessage(answer, stored)
    \/ ClearChat

SpecChat == Init /\ [][NextChat]_vars

\* Requests on the singleton tables, in parallel sessions.
NextSingleton ==
    \/ \E s \in Sessions, op \in SingletonOps : SingletonBegin(s, op)
    \/ \E s \in Sessions : SingletonQuery(s)
    \/ \E s \in Sessions : SingletonInsert(s)
    \/ \E s \in Sessions : SingletonRequery(s)

SpecSingleton == Init /\ [][NextSingleton]_vars

\* Chat turns that fill the two logs, days passing, and retention on demand.
NextRetention ==
    \/ \E answer \in Answers, stored \in BOOLEAN :
         /\ answer.action = "chat" /\ answer.task_id = 0
         /\ ProcessMessage(answer, stored)
    \/ AdvanceDay
    \/ \E retention_days \in 0..MaxRetentionDays : ChatRetention(retention_days)
    \/ \E retention_days \in 0..MaxRetentionDays : ExecutionRetention(retention_days)

SpecRetention == Init /\ [][NextRetention]_vars

\* Requests and reprioritizations one after the other, attempt by attempt.
NextPriority ==
    \/ /\ llm.pc \in {"idle", "done"}
       /\ \/ \E title \in Titles : next_id <= MaxTickTasks /\ CreateTask(title)
          \/ \E id \in Ids : StartTask(id)
          \/ \E id \in Ids : CompleteTask(id)
          \/ \E id \in Ids : DeleteTask(id)
    \/ PrioritizeBegin
    \/ \E raised \in BOOLEAN, raw \in RawPriorities : PrioritizeAttempt(raised, raw)

SpecPriority == Init /\ [][NextPriority]_vars

\* The model calls alone.
NextLLM ==
    \/ \E w \in Wirings : LLMBegin(w[1], w[2])
    \/ \E outcome \in AttemptOutcomes : LLMAttempt(outcome)
    \/ \E outcome \in StoreOutcomes : StoreExecution(outcome)

SpecLLM == Init /\ [][NextLLM]_vars

\* create_task under every valid fallback policy (config.py validators: hour in
\* [0, 23], duration > 0) at every hour of two days.
SettingsValues ==
    [fallback_start_hour : 0..(HoursPerDay - 1), fallback_duration_hours : 1..MaxDuration]

InitFallback ==
    /\ settings \in SettingsValues
    /\ now \in 0..MaxHour
    /\ calls = NoCalls
    /\ tasks = EmptyDb
    /\ next_id = 1
    /\ base = StatusOf(tasks)
    /\ last = Last("none", 0, "none", "")
    /\ sess = [s \in Sessions |-> Idle]
    /\ tick = TickIdle
    /\ store = EmptyStore
    /\ llm = LLMIdle

NextFallback == \E title \in Titles : CreateTask(title)

SpecFallback == InitFallback /\ [][NextFallback]_vars

\* The tables the parallel requests start from: every id holds a task in a
\* lifecycle state that sequential requests reach, at most one of them ACTIVE.
TitleOf(i) == IF i % 2 = 1 THEN "A" ELSE "B"

RowIn(status, title) ==
    LET row == Task(title, FallbackStart(0),
                    FallbackStart(0) + settings.fallback_duration_hours, TRUE)
    IN  CASE status = "PENDING"   -> row
          [] status = "ACTIVE"    -> [row EXCEPT !.actual_start_time = 0]
          [] status = "COMPLETED" -> [row EXCEPT !.actual_start_time = 0,
                                                 !.actual_end_time = 0, !.completed = TRUE]

InitConc ==
    /\ settings = DefaultSettings
    /\ calls = NoCalls
    /\ \E st \in [Ids -> {"PENDING", "ACTIVE", "COMPLETED"}] :
         /\ Cardinality({i \in Ids : st[i] = "ACTIVE"}) <= 1
         /\ tasks = [i \in Ids |-> RowIn(st[i], TitleOf(i))]
    /\ next_id = MaxId + 1
    /\ base = StatusOf(tasks)
    /\ now = 1
    /\ last = Last("none", 0, "none", "")
    /\ sess = [s \in Sessions |-> Idle]
    /\ tick = TickIdle
    /\ store = EmptyStore
    /\ llm = LLMIdle

NextConc ==
    \/ \E s \in Sessions, op \in Ops, id \in Ids : Begin(s, op, id)
    \/ \E s \in Sessions : SessionStep(s)

SpecConc == InitConc /\ [][NextConc]_vars

(***************************************************************************)
(* Properties.                                                             *)
(***************************************************************************)
StartOps == {"start", "start_task"}
StopOps == {"stop", "stop_task"}
CompleteOps == {"complete", "complete_task"}

\* C1: under sequential requests (task service or chat actions) at most one
\* task has actual_start_time set and completed = false.
C1_AtMostOneActive == Cardinality(ActiveIds(tasks)) <= 1

\* C1 witness: a start was refused because another task is ACTIVE.
C1_Witness ==
    /\ last.op \in StartOps /\ last.result = "conflict"
    /\ Cardinality(ActiveIds(tasks)) = 1

\* C2: of two parallel starts of distinct PENDING tasks, with no task ACTIVE
\* before, at most one reports success and at most one task is ACTIVE after.
C2_ConcurrentStartExclusive ==
    \A s1, s2 \in Sessions :
        ( /\ s1 # s2
          /\ sess[s1].pc = "done" /\ sess[s2].pc = "done"
          /\ sess[s1].op = "start" /\ sess[s2].op = "start"
          /\ sess[s1].id # sess[s2].id
          /\ base[sess[s1].id] = "PENDING" /\ base[sess[s2].id] = "PENDING"
          /\ \A i \in Ids : base[i] # "ACTIVE" )
        => /\ ~(sess[s1].result = "ok" /\ sess[s2].result = "ok")
           /\ Cardinality(ActiveIds(tasks)) <= 1

\* C3: start of a PENDING task while another task is ACTIVE is refused with a
\* message that names the active task, and no row changes.
C3_StartConflict ==
    [][\A i \in DOMAIN tasks :
          ( /\ last'.op \in StartOps /\ last'.id = i
            /\ IsPending(tasks[i])
            /\ ActiveIds(tasks) \ {i} # {} )
          => /\ last'.result = "conflict"
             /\ last'.names \in {tasks[a].title : a \in ActiveIds(tasks) \ {i}}
             /\ tasks' = tasks]_vars

\* C3 witness: a refused start whose message carries the active task's title,
\* which is not the title of the task that was to be started.
C3_Witness ==
    /\ last.op \in StartOps /\ last.result = "conflict" /\ last.was = "PENDING"
    /\ last.id \in DOMAIN tasks
    /\ last.names # tasks[last.id].title
    /\ \E a \in ActiveIds(tasks) : tasks[a].title = last.names

\* C4: COMPLETED is terminal but for delete: start and stop of a completed
\* task are refused and change nothing, and no request and no reconciler step
\* ever turns completed back to false.
C4_CompletedTerminal ==
    [][\A i \in DOMAIN tasks :
          tasks[i].completed =>
             /\ i \in DOMAIN tasks' => tasks'[i].completed
             /\ (last'.op \in StartOps \cup StopOps /\ last'.id = i)
                => (last'.result = "already_completed" /\ tasks' = tasks)]_vars

\* C4 witness: a stop was refused on a completed task that the reconciler has
\* scheduled.
C4_Witness ==
    /\ last.op \in StopOps /\ last.result = "already_completed"
    /\ last.id \in DOMAIN tasks
    /\ tasks[last.id].completed /\ ~tasks[last.id].needs_scheduling

\* C5: complete succeeds on an ACTIVE task, setting completed and
\* actual_end_time = now; on a PENDING and on a COMPLETED task it fails and
\* changes nothing.
C5_CompleteOnlyActive ==
    [][\A i \in DOMAIN tasks :
          (last'.op \in CompleteOps /\ last'.id = i)
          => IF IsActive(tasks[i])
             THEN /\ last'.result = "ok"
                  /\ tasks' = [tasks EXCEPT ![i].completed = TRUE,
                                            ![i].actual_end_time = now]
             ELSE /\ last'.result # "ok"
                  /\ tasks' = tasks]_vars

\* C6: stop succeeds on an ACTIVE task only, clearing actual_start_time and
\* nothing else; on a PENDING (or COMPLETED) task it fails and changes nothing.
C6_StopOnlyActive ==
    [][\A i \in DOMAIN tasks :
          (last'.op \in StopOps /\ last'.id = i)
          => IF IsActive(tasks[i])
             THEN /\ last'.result = "ok"
                  /\ tasks' = [tasks EXCEPT ![i].actual_start_time = NULL]
                  /\ IsPending(tasks'[i])
             ELSE /\ last'.result \in {"not_started", "already_completed"}
                  /\ (IsPending(tasks[i]) => last'.result = "not_started")
                  /\ tasks' = tasks]_vars

\* C6 witness: a stop of an ACTIVE task went through and the task is PENDING.
C6_Witness ==
    /\ last.op \in StopOps /\ last.result = "ok" /\ last.was = "ACTIVE"
    /\ last.id \in DOMAIN tasks /\ IsPending(tasks[last.id])

RunAlone(db, op, id) == Run(db, Lookup(db, op, id), now)

\* The requests that reported success, run one after the other in the order p
\* from the table db: the tables this can end in.
RECURSIVE Serial(_, _, _)
Serial(db, p, k) ==
    IF k > NumSessions THEN {db}
    ELSE IF sess[p[k]].result # "ok" THEN Serial(db, p, k + 1)
    ELSE UNION {Serial(o.db, p, k + 1) : o \in RunAlone(db, sess[p[k]].op, sess[p[k]].id)}

BaseDb == [i \in Ids |-> RowIn(base[i], TitleOf(i))]

\* C8: parallel start/stop/complete on one task id are linearizable: once all
\* have returned, the row is in the lifecycle state that the successful ones
\* produce in some serial order.
C8_Linearizable ==
    ( /\ \A s \in Sessions : sess[s].pc = "done" /\ sess[s].op \in {"start", "stop", "complete"}
      /\ \A s1, s2 \in Sessions : sess[s1].id = sess[s2].id )
    => \E p \in Permutations(Sessions) :
         \E db \in Serial(BaseDb, p, 1) :
            \A s \in Sessions :
               /\ sess[s].id \in DOMAIN tasks
               /\ Status(db[sess[s].id]) = Status(tasks[sess[s].id])
               /\ (db[sess[s].id].actual_start_time = NULL)
                    = (tasks[sess[s].id].actual_start_time = NULL)
               /\ (db[sess[s].id].actual_end_time = NULL)
                    = (tasks[sess[s].id].actual_end_time = NULL)

\* C9: a request whose task was deleted by another session after its lookup
\* fails at its re-read with the 'gone' error and writes nothing; no request
\* step ever brings a deleted row back or touches a row other than its own.
C9_GoneDetected ==
    [][\A s \in Sessions :
          sess'[s] # sess[s] =>
             /\ ( sess[s].pc = "refresh" /\ sess[s].id \notin DOMAIN tasks )
                => ( /\ sess'[s].pc = "done"
                     /\ sess'[s].result = "gone"
                     /\ tasks' = tasks )
             /\ DOMAIN tasks' \subseteq DOMAIN tasks
             /\ \A j \in DOMAIN tasks' : j # sess'[s].id => tasks'[j] = tasks[j]]_vars

\* C9 witness: a start, stop or complete ended 'gone' while the other session's
\* delete of that task had succeeded.
C9_Witness ==
    \E s1, s2 \in Sessions :
        /\ sess[s1].pc = "done" /\ sess[s1].result = "gone"
        /\ sess[s2].pc = "done" /\ sess[s2].op = "delete" /\ sess[s2].result = "ok"
        /\ sess[s1].id = sess[s2].id
        /\ sess[s1].id \notin DOMAIN tasks

\* C10: delete_task removes exactly the named row in any lifecycle state and
\* returns true; for an id not in the store it returns false and changes nothing.
C10_Delete ==
    [][\A i \in Ids :
          (last'.op = "delete" /\ last'.id = i)
          => IF i \in DOMAIN tasks
             THEN /\ last'.result = "ok"
                  /\ tasks' = Remove(tasks, i)
             ELSE /\ last'.result = "not_found"
                  /\ tasks' = tasks]_vars

\* C10 witness: a COMPLETED task was deleted and another task is still there.
C10_Witness ==
    /\ last.op = "delete" /\ last.result = "ok" /\ last.was = "COMPLETED"
    /\ last.id \notin DOMAIN tasks
    /\ DOMAIN tasks # {}

\* C11: create_task adds exactly one task, flagged needs_scheduling, not
\* completed, with no actual times, and makes no model call (so no audit
\* record, which only a model call writes); a task's schedule and flag are
\* touched, and the model is called, only inside a reconciler tick.
C11_CreateNoLLM ==
    [][/\ last'.op = "create" =>
            /\ calls' = NoCalls
            /\ last'.id \notin DOMAIN tasks
            /\ DOMAIN tasks' = DOMAIN tasks \cup {last'.id}
            /\ \A i \in DOMAIN tasks : tasks'[i] = tasks[i]
            /\ tasks'[last'.id].needs_scheduling
            /\ ~tasks'[last'.id].completed
            /\ tasks'[last'.id].actual_start_time = NULL
            /\ tasks'[last'.id].actual_end_time = NULL
       /\ Len(calls') > Len(calls) => tick.pc # "idle"
       /\ \A i \in DOMAIN tasks \cap DOMAIN tasks' :
            ( \/ tasks'[i].scheduled_start_time # tasks[i].scheduled_start_time
              \/ tasks'[i].scheduled_end_time # tasks[i].scheduled_end_time
              \/ tasks'[i].needs_scheduling # tasks[i].needs_scheduling )
            => tick.pc # "idle"]_vars

\* C11 witness: a task was just created, still flagged, and no call was made.
C11_Witness ==
    /\ last.op = "create" /\ calls = NoCalls /\ tick.pc = "idle"
    /\ last.id \in DOMAIN tasks
    /\ tasks[last.id].needs_scheduling /\ ~tasks[last.id].completed

\* C12: the task create_task returns starts today at fallback_start_hour if
\* that instant has not passed, else at that hour of the next day, never before
\* the creation instant, and ends fallback_duration_hours later.
C12_FallbackSlot ==
    \A i \in DOMAIN tasks :
        LET start == tasks[i].scheduled_start_time
            midnight == now - (now % HoursPerDay)
            today == midnight + settings.fallback_start_hour
        IN  /\ start = IF today >= now THEN today ELSE today + HoursPerDay
            /\ start >= now
            /\ start % HoursPerDay = settings.fallback_start_hour
            /\ start - now <= HoursPerDay
            /\ tasks[i].scheduled_end_time = start + settings.fallback_duration_hours

\* C12 witness: under a policy other than the default, the hour had passed and
\* the created task starts on the next day.
C12_Witness ==
    /\ last.op = "create" /\ last.id \in DOMAIN tasks
    /\ settings.fallback_start_hour # fallback_start_hour
    /\ settings.fallback_duration_hours # fallback_duration_hours
    /\ tasks[last.id].scheduled_start_time \div HoursPerDay = (now \div HoursPerDay) + 1

\* The calls the tick made, and the state a finished tick leaves behind.
Events(log) == {log[k] : k \in 1..Len(log)}
TickOver == tick.pc = "idle" /\ last.op = "tick"
TickEnds == tick.pc # "idle" /\ tick'.pc = "idle"

C14_FailedKeepsFlag ==
    TickOver =>
        \A e \in Events(calls) :
            (e.phase = "A" /\ e.failed /\ e.id \in DOMAIN tasks)
            => tasks[e.id].needs_scheduling

C16_ScheduledEndAfterStart ==
    \A i \in DOMAIN tasks :
        (tasks[i].scheduled_start_time # NULL /\ tasks[i].scheduled_end_time # NULL)
        => tasks[i].scheduled_end_time > tasks[i].scheduled_start_time

\* C17: a task that was not completed and had scheduled_end < now when the tick
\* began has scheduled_end > now when the tick is over, unless the tick logged a
\* failed time-slot call for it.
C17_SlippedRescheduled ==
    [][TickEnds =>
         \A i \in DOMAIN tick.before :
            ( /\ tick.before[i].scheduled_end_time # NULL
              /\ tick.before[i].scheduled_end_time < tick.now
              /\ ~tick.before[i].completed )
            => \/ /\ i \in DOMAIN tasks'
                  /\ tasks'[i].scheduled_end_time # NULL
                  /\ tasks'[i].scheduled_end_time > tick.now
               \/ \E e \in Events(calls') : e.id = i /\ e.failed]_vars

\* C18: a tick calls the prioritizer at most once, with all incomplete tasks,
\* and it does so if and only if Phase A or Phase B changed a task (cleared a
\* flag or wrote the times of an answered call); a tick whose time-slot calls
\* all failed and that changed nothing makes no prioritizer call.
C18_PrioritizeIffChanged ==
    [][TickEnds =>
         LET made == {k \in 1..Len(calls') : calls'[k].module = "TaskPrioritizer"}
             changed == \/ tasks # tick.before
                        \/ \E e \in Events(calls) : ~e.failed
         IN  /\ Cardinality(made) <= 1
             /\ (made # {}) <=> changed
             /\ \A k \in made :
                  calls'[k].input = {i \in DOMAIN tasks : ~tasks[i].completed}]_vars

\* C19: reprioritization writes the priority, and nothing else, of exactly the
\* tasks in the table whose ids the prioritizer's answer names; the other tasks
\* keep theirs, ids naming no task are ignored, and a failed prioritizer call
\* changes nothing.
C19_PrioritiesApplied ==
    [][TickEnds =>
         LET answers == {e \in Events(calls') : e.module = "TaskPrioritizer" /\ ~e.failed}
         IN  /\ DOMAIN tasks' = DOMAIN tasks
             /\ answers = {} => tasks' = tasks
             /\ \A e \in answers : \A i \in DOMAIN tasks :
                  /\ tasks'[i].priority = IF i \in DOMAIN e.result THEN e.result[i]
                                          ELSE tasks[i].priority
                  /\ [tasks'[i] EXCEPT !.priority = 0] = [tasks[i] EXCEPT !.priority = 0]]_vars

\* C19 witness: a tick is over whose prioritizer answer named a task of the
\* table, which now has the answered priority, and an id that names no task.
C19_Witness ==
    /\ TickOver
    /\ \E e \in Events(calls) :
         /\ e.module = "TaskPrioritizer" /\ ~e.failed
         /\ \E i \in DOMAIN e.result \cap DOMAIN tasks :
              e.result[i] # 0 /\ tasks[i].priority = e.result[i]
         /\ DOMAIN e.result \ DOMAIN tasks # {}

\* The rank of a phase in the order A, B, C.
PhaseRank(phase) == CASE phase = "A" -> 1 [] phase = "B" -> 2 [] OTHER -> 3

\* C20: within a tick every Phase A call and write comes before any Phase B
\* reschedule, and every Phase B call and write before the prioritizer call,
\* after which the tick does nothing but apply the priorities and end.
C20_PhaseOrder ==
    [][/\ \A j, k \in 1..Len(calls') :
            j < k => PhaseRank(calls'[j].phase) <= PhaseRank(calls'[k].phase)
       /\ (tick.pc \in {"A", "A_flag"} /\ (tasks' # tasks \/ calls' # calls))
            => \A e \in Events(calls) : e.phase = "A"
       /\ (tick.pc = "B" /\ tick'.pc = "B")
            => /\ \A e \in Events(calls) : e.phase \in {"A", "B"}
               /\ \A i \in DOMAIN tick.before :
                    (tick.before[i].needs_scheduling /\ ~tick.before[i].completed)
                    => /\ \E e \in Events(calls) : e.phase = "A" /\ e.id = i
                       /\ ~tasks[i].needs_scheduling
       /\ (\E e \in Events(calls') : e.phase = "C") => tick'.pc = "idle"]_vars

\* C20 witness: a tick is over that called the model in Phase A, in Phase B and
\* in Phase C.
C20_Witness ==
    /\ TickOver
    /\ \A phase \in {"A", "B", "C"} : \E e \in Events(calls) : e.phase = phase

\* C21: ticks of the reconciler never overlap: at most one instance of
\* check_and_update_schedule runs at any time, and a firing of the timer while
\* a tick is running is dropped, leaving the running tick and every table as
\* they were.
C21_TicksNeverOverlap ==
    [][/\ tick'.running <= 1
       /\ (tick.pc # "idle" /\ tick'.pc # "idle") => tick'.before = tick.before
       /\ last'.result = "skipped" => (tick' = tick /\ tasks' = tasks /\ store' = store)]_vars

C21_Witness == tick.pc = "B" /\ tick.running = 1 /\ last.result = "skipped"

\* C22: each logical model call (scheduleTimeslot, prioritize, assistantAct)
\* invokes the model at most three times, returns the first successful
\* result, retries after any error, and reports terminal failure only after
\* the third failed attempt.
C22_ThreeAttempts ==
    /\ llm.invoked <= stop_after_attempt
    /\ llm.pc = "done" =>
         /\ llm.result \in {"prediction", "error"}
         /\ llm.result = "error" => llm.invoked = stop_after_attempt

\* C23: every logical model call appends exactly one audit record, on its
\* terminal success or its terminal failure; a retried failed attempt appends
\* none.
C23_OneAuditRecord ==
    /\ llm.pc = "done" => Len(store.dspy_executions) = llm.rows_before + 1
    /\ llm.pc = "attempt" => Len(store.dspy_executions) = llm.rows_before

\* C24: a failure to write the audit record, its own retries on transient
\* database errors included, never changes the outcome of the model call: the
\* caller receives the model's result as if the write had succeeded.
C24_AuditFailureHarmless ==
    llm.stores > 0 => llm.result = "prediction"

C24_Witness ==
    /\ llm.pc = "done" /\ llm.result = "prediction"
    /\ llm.stores = store_stop_after_attempt
    /\ Len(store.dspy_executions) = llm.rows_before

\* A step is a chat turn: POST /chat/send was served.
ChatTurn == last'.op \in AssistantActions \cup {"process_message"}

\* The results with which a dispatched action fails: the task is not found,
\* or the repository raises.
ActionFailures == {"not_found", "conflict", "already_completed", "not_started",
                   "gone", "stale"}

\* The rows the turn appended to chat_messages.
Appended == SubSeq(store'.chat_messages, Len(store.chat_messages) + 1,
                   Len(store'.chat_messages))

\* C25: every chat turn appends exactly one ChatMessage row, whether the
\* dispatched action succeeded, failed, or the assistant's call itself failed.
C25_OneRowPerTurn ==
    [][ChatTurn =>
         /\ Len(store'.chat_messages) = Len(store.chat_messages) + 1
         /\ SubSeq(store'.chat_messages, 1, Len(store.chat_messages)) = store.chat_messages]_vars

\* C26: when the dispatched action fails, the turn still returns, the reason
\* follows the assistant's response as a note, that combined response is the
\* one row stored, and the tasks table is as it was.
C26_FailedActionNoted ==
    [][(ChatTurn /\ last'.result \in ActionFailures) =>
         /\ tasks' = tasks
         /\ next_id' = next_id
         /\ Appended = <<ChatMessage(Response \o <<"Note", last'.result>>)>>]_vars

C26_Witness ==
    /\ last.op = "stop_task" /\ last.result = "not_started"
    /\ last.id \in DOMAIN tasks
    /\ store.chat_messages # <<>>
    /\ store.chat_messages[Len(store.chat_messages)].assistant_response
         = Response \o <<"Note", "not_started">>

\* C27: for start_task, complete_task, stop_task and delete_task from chat, if
\* task_id is missing or names no task, no task changes and the stored
\* response is the assistant's response followed by an error message.
C27_MissingTaskNoted ==
    [][(/\ ChatTurn
        /\ last'.op \in {"start_task", "complete_task", "stop_task", "delete_task"}
        /\ last'.id \notin DOMAIN tasks) =>
         /\ tasks' = tasks
         /\ Len(Appended) = 1
         /\ Len(Appended[1].assistant_response) > Len(Response)
         /\ SubSeq(Appended[1].assistant_response, 1, Len(Response)) = Response]_vars

\* The ids whose row differs between two tables.
Changed(db1, db2) ==
    {i \in DOMAIN db1 \cup DOMAIN db2 :
        \/ i \notin DOMAIN db1
        \/ i \notin DOMAIN db2
        \/ db1[i] # db2[i]}

C29_ChatCreateAsService ==
    [][(ChatTurn /\ last'.op = "create_task") =>
         /\ last'.id \in DOMAIN tasks'
         /\ tasks'[last'.id] = Task("Untitled Task", FallbackStart(now),
                                    FallbackStart(now) + settings.fallback_duration_hours,
                                    TRUE)]_vars

\* C30: for global_context and for settings, get_or_create calls running
\* concurrently in separate sessions on an empty table leave exactly one row,
\* every call returns that row without raising, and each table holds at most
\* one row in every reachable state.
C30_SingletonRow ==
    /\ store.global_context <= 1
    /\ store.settings <= 1
    /\ \A s \in Sessions :
         (sess[s].pc = "done" /\ sess[s].op \in SingletonOps \ {"GlobalContextRepository.update"}) =>
            /\ sess[s].result \in {"found", "created", "found_after_conflict"}
            /\ store[TableOf(sess[s].op)] = 1

C30_Witness ==
    /\ \A s \in Sessions : sess[s].pc = "done" /\ sess[s].op = "SettingsRepository.get_or_create"
    /\ \E s \in Sessions : sess[s].result = "created"
    /\ \E s \in Sessions : sess[s].result = "found_after_conflict"
    /\ store.settings = 1

\* The named table of the store.
Rows(st, table) == IF table = "chat_messages" THEN st.chat_messages ELSE st.dspy_executions

\* C31: retention on the chat log and on the model-call log deletes exactly
\* the rows older than retention_days and returns their count, keeping every
\* newer row; with retention_days = 0 every row made before the call goes, and
\* a second run right after the first deletes nothing.
C31_RetentionTrims ==
    [][last'.op = "delete_old_records" =>
         LET before == Rows(store, last'.names)
             after == Rows(store', last'.names)
         IN  /\ last'.result = "ok"
             /\ after = KeptRows(before, last'.retention_days, now)
             /\ last'.deleted = Len(before) - Len(after)
             /\ last'.retention_days = 0 =>
                  \A k \in 1..Len(after) : after[k].created_at = now
             /\ (/\ last.op = "delete_old_records"
                 /\ last.result = "ok"
                 /\ last.names = last'.names
                 /\ last.retention_days = last'.retention_days) => last'.deleted = 0]_vars

Slipped(id) ==
    /\ id \in DOMAIN tasks
    /\ ~tasks[id].completed
    /\ \/ tasks[id].scheduled_end_time # NULL /\ tasks[id].scheduled_end_time < now
       \/ /\ tasks[id].scheduled_start_time # NULL /\ tasks[id].scheduled_start_time < now
          /\ tasks[id].actual_start_time = NULL

\* The tick has just made a reschedule attempt for task id.
Attempted(id) ==
    /\ tick.pc # "idle"
    /\ calls # <<>>
    /\ calls[Len(calls)].module = "TimeSlotScheduler"
    /\ calls[Len(calls)].id = id

ServiceExistingSchedule(db, id) ==
    {i \in DOMAIN db : /\ db[i].scheduled_start_time # NULL
                       /\ i # id}

\* Lines 119-121 on an answer, lines 125-128 on any exception of the call.
ServiceWrite(db, id, slot) ==
    IF slot.failed THEN [db EXCEPT ![id].needs_scheduling = FALSE]
    ELSE [db EXCEPT ![id].scheduled_start_time = ParseIso(slot.start_time),
                    ![id].scheduled_end_time = ParseIso(slot.end_time),
                    ![id].needs_scheduling = FALSE]

ScheduleTaskWithDspy(id, slot) ==
    /\ id \in DOMAIN tasks
    /\ calls' = <<[module |-> "TimeSlotScheduler", phase |-> "service", id |-> id,
                   failed |-> slot.failed,
                   start_parsed |-> ~slot.failed /\ ParseIso(slot.start_time) # NULL,
                   end_parsed |-> ~slot.failed /\ ParseIso(slot.end_time) # NULL,
                   input |-> ServiceExistingSchedule(tasks, id),
                   result |-> NoPriorities]>>
    /\ tasks' = ServiceWrite(tasks, id, slot)
    /\ last' = Last("schedule", id, "ok", "")
    /\ UNCHANGED <<next_id, now, sess, base, tick, settings, store, llm>>

\* Requests of the task routes and schedulings by the service.
NextSchedule ==
    \/ \E title \in Titles : CreateTask(title)
    \/ \E id \in Ids : StartTask(id)
    \/ \E id \in Ids : CompleteTask(id)
    \/ \E id \in Ids : DeleteTask(id)
    \/ \E id \in Ids, slot \in LLMSlots : ScheduleTaskWithDspy(id, slot)

SpecSchedule == Init /\ [][NextSchedule]_vars

\* C35: every existing_schedule handed to the time-slot model, by the
\* service's scheduling and by the reconciler's rescheduling, holds exactly
\* the tasks that have a scheduled start, are not completed and are not the
\* task being scheduled.
C35_ExistingSchedule ==
    [][(calls' # calls /\ calls' # NoCalls) =>
         LET c == calls'[Len(calls')]
         IN  (c.module = "TimeSlotScheduler" /\ c.phase \in {"service", "A", "B"}) =>
               c.input = {i \in DOMAIN tasks : /\ tasks[i].scheduled_start_time # NULL
                                               /\ ~tasks[i].completed
                                               /\ i # c.id}]_vars

\* C36: no step of a reconciler tick changes actual_start, actual_end or
\* completed of any task or adds or removes a row, so a tick that starts with
\* at most one task in progress leaves at most one in progress.
C36_TickKeepsProgressFields ==
    [][last'.op = "tick" =>
         /\ DOMAIN tasks' = DOMAIN tasks
         /\ \A i \in DOMAIN tasks :
              /\ tasks'[i].actual_start_time = tasks[i].actual_start_time
              /\ tasks'[i].actual_end_time = tasks[i].actual_end_time
              /\ tasks'[i].completed = tasks[i].completed
         /\ (Cardinality(ActiveIds(tasks)) <= 1 =>
               Cardinality(ActiveIds(tasks')) <= 1)]_vars

C36_Witness ==
    /\ tick.pc = "A_flag"
    /\ calls # <<>> /\ ~calls[Len(calls)].failed /\ calls[Len(calls)].start_parsed
    /\ \E i \in ActiveIds(tasks) :
         /\ i = calls[Len(calls)].id
         /\ tasks[i].scheduled_start_time = MaxTime + 1

\* C37: in Phase A the new scheduled times and the clearing of
\* needs_scheduling reach the table in one commit: no step of Phase A leaves
\* a task with changed scheduled times and needs_scheduling still set.
C37_TimesAndFlagTogether ==
    [][(last'.op = "tick" /\ tick.pc \in {"A", "A_flag"}) =>
         \A i \in DOMAIN tasks :
           (\/ tasks'[i].scheduled_start_time # tasks[i].scheduled_start_time
            \/ tasks'[i].scheduled_end_time # tasks[i].scheduled_end_time) =>
             ~tasks'[i].needs_scheduling]_vars

(***************************************************************************)
(* The reconciler tick with its time-slot call in flight: reschedule_task   *)
(* split at the call of line 58, and the requests of the task routes that   *)
(* reach the table, for the task the call is about, before the call's       *)
(* answer does.                                                             *)
(***************************************************************************)
\* The phase whose call is in flight.
CallPc(pc) == IF pc = "A" THEN "A_call" ELSE "B_call"

\* reschedule_task lines 45-58 for the head of the queue: the inputs are read
\* and the call goes out.  In Phase B only a slipped task gets there.
RescheduleCall ==
    /\ tick.pc \in {"A", "B"} /\ tick.queue # <<>>
    /\ Head(tick.queue) \in DOMAIN tasks
    /\ tick.pc = "B" => NeedsReschedule(tasks[Head(tick.queue)], tick.now)
    /\ tick' = [tick EXCEPT !.pc = CallPc(tick.pc)]
    /\ calls' = Append(calls, TimeSlotCall(tick.pc, Head(tick.queue), LLMFailed))
    /\ last' = TickMark
    /\ UNCHANGED <<tasks, next_id, now, sess, base, settings, store, llm>>

\* A request for the task whose call is in flight, served by its own session
\* while the tick waits.
HandlerDuringCall(op) ==
    /\ tick.pc \in {"A_call", "B_call"}
    /\ \E o \in Run(tasks, Lookup(tasks, op, Head(tick.queue)), now) :
         /\ tasks' = o.db
         /\ last' = Last(op, Head(tick.queue), o.se.result, o.se.names)
    /\ UNCHANGED <<next_id, now, sess, base, tick, calls, settings, store, llm>>

\* The end of the tick by an exception that leaves check_and_update_schedule
\* (lines 155-207: try and finally, no except).
TickRaised(exception) ==
    /\ tick' = [TickIdle EXCEPT !.running = tick.running - 1]
    /\ last' = [TickMark EXCEPT !.result = exception]

\* reschedule_task lines 59-85 once the call is over: a failed call returns
\* (lines 65-67); an answer is followed by refresh (line 70), which raises
\* InvalidRequestError for a row that is gone, and by the assignment and the
\* commit of the parsed times (lines 73-85), whatever the refreshed row holds.
RescheduleAnswer(slot) ==
    /\ tick.pc \in {"A_call", "B_call"}
    /\ LET id == Head(tick.queue)
           phase == IF tick.pc = "A_call" THEN "A" ELSE "B"
       IN  /\ calls' = [calls EXCEPT ![Len(calls)] =
                          [TimeSlotCall(phase, id, slot) EXCEPT !.input = calls[Len(calls)].input]]
           /\ IF ~slot.failed /\ id \notin DOMAIN tasks
              THEN /\ TickRaised("InvalidRequestError")
                   /\ tasks' = tasks
              ELSE /\ tasks' = IF id \in DOMAIN tasks THEN RescheduleWrite(tasks, id, slot)
                               ELSE tasks
                   /\ tick' = IF phase = "A"
                              THEN [tick EXCEPT !.pc = "A_flag", !.failed = slot.failed]
                              ELSE [tick EXCEPT !.pc = "B", !.queue = Tail(@),
                                                !.rescheduled = @ + 1]
                   /\ last' = TickMark
    /\ UNCHANGED <<next_id, now, sess, base, settings, store, llm>>

\* Phase A lines 169-170 for a task whose row is gone: the UPDATE of the flag
\* matches no row and the commit raises StaleDataError.
ClearFlagStale ==
    /\ tick.pc = "A_flag"
    /\ Head(tick.queue) \notin DOMAIN tasks
    /\ TickRaised("StaleDataError")
    /\ UNCHANGED <<tasks, next_id, now, sess, base, calls, settings, store, llm>>

\* Requests between ticks, and ticks whose calls take time.
NextRace ==
    \/ /\ tick.pc = "idle"
       /\ \/ \E title \in Titles : next_id <= MaxTickTasks /\ CreateTask(title)
          \/ \E id \in Ids : StartTask(id)
          \/ \E id \in Ids : CompleteTask(id)
          \/ \E id \in Ids : DeleteTask(id)
    \/ TickBegin
    \/ RescheduleCall
    \/ \E op \in {"start", "complete", "delete"} : HandlerDuringCall(op)
    \/ \E slot \in LLMSlots : RescheduleAnswer(slot)
    \/ tick.pc = "A_flag" /\ Head(tick.queue) \in DOMAIN tasks /\ TickClearFlag
    \/ ClearFlagStale
    \/ TickPhaseB
    \/ /\ tick.pc = "B" /\ tick.queue # <<>>
       /\ ~NeedsReschedule(tasks[Head(tick.queue)], tick.now)
       /\ TickCheck(LLMFailed)
    \/ \E failed \in BOOLEAN : TickPrioritize(failed, NoPriorities)

SpecRace == Init /\ [][NextRace]_vars

\* C38: when the row of the task whose call is in flight has been deleted by
\* a request, the tick's next step for that task does not bring the row back,
\* raises nothing, and leaves the tick running for the remaining tasks and
\* Phase C.
C38_DeletedDuringCall ==
    [][(/\ last'.op = "tick"
        /\ tick.pc \in {"A_call", "B_call", "A_flag"}
        /\ Head(tick.queue) \notin DOMAIN tasks) =>
         /\ Head(tick.queue) \notin DOMAIN tasks'
         /\ last'.result = "ok"
         /\ tick'.pc # "idle"]_vars

\* C39: no step of the reconciler changes the scheduled start or end of a
\* task that is completed when the step writes: a task completed by a request
\* while its call was in flight keeps its scheduled times.
C39_CompletedNotOverwritten ==
    [][last'.op = "tick" =>
         \A i \in DOMAIN tasks \cap DOMAIN tasks' :
           tasks[i].completed =>
             /\ tasks'[i].scheduled_start_time = tasks[i].scheduled_start_time
             /\ tasks'[i].scheduled_end_time = tasks[i].scheduled_end_time]_vars

\* C40: start of a task that is already ACTIVE succeeds, changes no field of
\* any row (actual_start_time keeps the time of the first start), and is not
\* refused as a conflict with the task itself.
C40_StartActiveIdempotent ==
    [][\A i \in DOMAIN tasks :
          ( /\ last'.op \in StartOps /\ last'.id = i
            /\ tasks[i].actual_start_time # NULL /\ ~tasks[i].completed )
          => /\ last'.result = "ok"
             /\ tasks' = tasks]_vars

C40_Witness ==
    /\ last.op \in StartOps /\ last.result = "ok" /\ last.was = "ACTIVE"
    /\ last.id \in DOMAIN tasks
    /\ tasks[last.id].actual_start_time # NULL
    /\ tasks[last.id].actual_start_time < now

====
